---- MODULE Spec2Model ----
(***************************************************************************)
(* A model of the dungeon generator of src/src/dungeon.rs: the Stage tile  *)
(* store, Rectangle::distance_to, and the four phases of                   *)
(* Dungeon::generate (add_rooms, grow_maze, connect_regions,               *)
(* remove_dead_ends).  Random draws are existential choices.  A Rust panic *)
(* is a terminal state whose pc is the panic message.                      *)
(***************************************************************************)
EXTENDS Integers, Sequences, FiniteSets, TLC

VARIABLES
    width, height, tiles,      \* Stage
    n_room_tries, rooms, regions, curr_region,   \* Dungeon
    pc,                        \* position in generate / in the driven operation
    tries,                     \* add_rooms: iterations of the 'outer loop done
    seed,                      \* generate: index of the next maze seed to look at
    cells, last_dir,           \* grow_maze locals
    seen_unmade, seen_dir,     \* history: unmade_cells and last_dir as the latest iteration found them
    connector_regions, connectors, merged_regions, open_regions,  \* connect_regions locals
    done, cursor,              \* remove_dead_ends locals (cursor: scan position)
    junctions,                 \* history: positions handed to add_junction
    shrunk,                    \* history: the last merge iteration removed an open region
    start_tiles,               \* history: the grid when remove_dead_ends was entered
    op, op_pos, op_result, prev_tiles   \* Stage driver: the last get/set and its outcome

vars == << width, height, tiles, n_room_tries, rooms, regions, curr_region, pc,
           tries, seed, cells, last_dir, seen_unmade, seen_dir, connector_regions,
           connectors, merged_regions, open_regions, done, cursor, junctions, shrunk,
           start_tiles, op, op_pos, op_result, prev_tiles >>

----------------------------------------------------------------------------
(* Tile and Vector *)

Tile == {"Wall", "OpenDoor", "ClosedDoor", "Floor"}

None == "None"

VecAdd(a, b) == << a[1] + b[1], a[2] + b[2] >>

VecSub(a, b) == << a[1] - b[1], a[2] - b[2] >>

VecMul(a, k) == << a[1] * k, a[2] * k >>

Abs(n) == IF n < 0 THEN -n ELSE n

VecAbs(a) == Abs(a[1]) + Abs(a[2])

CARDINALS == << <<0, -1>>, <<1, 0>>, <<0, 1>>, <<-1, 0>> >>

NoDir == <<0, 0>>

\* i32 division truncates toward zero
TruncDiv(a, b) == IF a >= 0 THEN a \div b ELSE -((-a) \div b)

----------------------------------------------------------------------------
(* Stage *)

StageNew(w, h) == [i \in 0 .. (w * h - 1) |-> "Wall"]

\* (pos.1 * self.width + pos.0) as usize: a negative i32 becomes an index
\* far beyond the vector, which Vec::get / get_mut answer with None
StageIndex(w, pos) == pos[2] * w + pos[1]

IndexInVec(t, idx) == idx >= 0 /\ idx \in DOMAIN t

StageGet(t, w, pos) ==
    LET idx == StageIndex(w, pos)
    IN  IF IndexInVec(t, idx) THEN t[idx] ELSE None

StageSet(t, w, pos, tile) ==
    LET idx == StageIndex(w, pos)
    IN  IF IndexInVec(t, idx) THEN [t EXCEPT ![idx] = tile] ELSE t

StageContains(w, h, pos) ==
    pos[1] >= 0 /\ pos[1] < w /\ pos[2] >= 0 /\ pos[2] < h

----------------------------------------------------------------------------
(* Rectangle *)

Rect(x, y, w, h) == [x |-> x, y |-> y, w |-> w, h |-> h]

Top(r) == r.y

Bottom(r) == r.y + r.h

Left(r) == r.x

Right(r) == r.x + r.w

distance_to(self, other) ==
    LET vertical ==
            IF Top(self) >= Bottom(other) THEN Top(self) - Bottom(other)
            ELSE IF Bottom(self) <= Top(other) THEN Top(other) - Bottom(self)
            ELSE -1
        horizontal ==
            IF Left(self) >= Right(other) THEN Left(self) - Right(other)
            ELSE IF Right(self) <= Left(other) THEN Left(other) - Right(self)
            ELSE -1
    IN  IF vertical = -1 /\ horizontal = -1 THEN -1
        ELSE IF vertical = -1 THEN horizontal
        ELSE IF horizontal = -1 THEN vertical
        ELSE vertical + horizontal

----------------------------------------------------------------------------
(* Dungeon: constants and small helpers *)

EXTRA_CONNECTOR_CHANCE == 20

JUNCTION_OPEN_CHANCE == 4

OPEN_DOOR_CHANCE == 3

WINDING_PERCENT == 0

ROOM_EXTRA_SIZE == 0

N_ROOM_TRIES == 50

PanicOdd == "panic: Stage width and height must be odd"

PanicEmptyRange == "panic: cannot sample empty range"

PanicRemZero == "panic: remainder with a divisor of zero"

PanicStates == {PanicOdd, PanicEmptyRange, PanicRemZero}

\* self.stage.get(pos).unwrap(): every call below is at a position inside
\* the grid, where get answers Some
get_tile(t, w, pos) == StageGet(t, w, pos)

set_tile(t, w, pos, tile) == StageSet(t, w, pos, tile)

EmptyMap == [p \in {} |-> 0]

Max(a, b) == IF a >= b THEN a ELSE b

\* gen_range(lo..hi): the values that can be drawn; empty when the call panics
GenRange(lo, hi) == lo .. (hi - 1)

\* gen_range(lo..=hi)
GenRangeInclusive(lo, hi) == lo .. hi

\* gen_ratio(n, d): TRUE with probability n/d
GenRatio(n, d) == {b \in BOOLEAN : (b => n > 0) /\ (~b => n < d)}

\* the positions (1..height).step_by(2) x (1..width).step_by(2), row by row
SeedCells(w, h) ==
    LET nx == w \div 2
        ny == h \div 2
    IN  [k \in 1 .. (nx * ny) |->
            << 2 * ((k - 1) % nx) + 1, 2 * ((k - 1) \div nx) + 1 >>]

\* the positions 1..height-1 x 1..width-1, row by row
InteriorCells(w, h) ==
    LET nx == Max(w - 2, 0)
        ny == Max(h - 2, 0)
    IN  [k \in 1 .. (nx * ny) |->
            << ((k - 1) % nx) + 1, ((k - 1) \div nx) + 1 >>]

\* carve(pos, tile) for every pos of S: set_tile, then regions.insert
CarveTiles(t, w, S, tile) ==
    [i \in DOMAIN t |->
        IF \E p \in S : StageIndex(w, p) = i THEN tile ELSE t[i]]

CarveRegions(rg, S, id) ==
    [p \in (DOMAIN rg) \cup S |-> IF p \in S THEN id ELSE rg[p]]

RoomCells(room) ==
    {<<x, y>> : x \in room.x .. (room.x + room.w - 1),
                y \in room.y .. (room.y + room.h - 1)}

----------------------------------------------------------------------------
(* Dungeon::new and the head of Dungeon::generate *)

\* everything the phases not yet entered leave untouched
IdleLocals ==
    /\ tries = 0
    /\ seed = 1
    /\ cells = << >>
    /\ last_dir = NoDir
    /\ seen_unmade = << >>
    /\ seen_dir = NoDir
    /\ connector_regions = << >>
    /\ connectors = << >>
    /\ merged_regions = EmptyMap
    /\ open_regions = {}
    /\ done = FALSE
    /\ cursor = 1
    /\ junctions = {}
    /\ shrunk = TRUE
    /\ op = "none"
    /\ op_pos = <<0, 0>>
    /\ op_result = None

DungeonNew ==
    /\ n_room_tries = N_ROOM_TRIES
    /\ rooms = << >>
    /\ regions = EmptyMap
    /\ curr_region = -1

\* the stages generate is run on: the 1x1 grid, grids too small for any
\* room, grids of one to three regions, and one even grid for the assertion
StageDims == { <<1, 1>>, <<3, 3>>, <<5, 5>>, <<7, 5>>, <<7, 7>>, <<9, 5>>, <<4, 5>> }

Init ==
    /\ \E d \in StageDims : width = d[1] /\ height = d[2]
    /\ tiles = StageNew(width, height)
    /\ DungeonNew
    /\ pc = "generate"
    /\ IdleLocals
    /\ start_tiles = tiles
    /\ prev_tiles = tiles

Panic(msg) ==
    /\ pc' = msg
    /\ UNCHANGED << width, height, tiles, n_room_tries, rooms, regions, curr_region,
                    tries, seed, cells, last_dir, seen_unmade, seen_dir, connector_regions, connectors,
                    merged_regions, open_regions, done, cursor, junctions, shrunk,
                    start_tiles, op, op_pos, op_result, prev_tiles >>

Generate ==
    /\ pc = "generate"
    /\ IF width % 2 = 0 \/ height % 2 = 0
       THEN Panic(PanicOdd)
       ELSE /\ regions' = EmptyMap
            /\ pc' = "add_rooms"
            /\ UNCHANGED << width, height, tiles, n_room_tries, rooms, curr_region,
                            tries, seed, cells, last_dir, seen_unmade, seen_dir, connector_regions,
                            connectors, merged_regions, open_regions, done, cursor,
                            junctions, shrunk, start_tiles, op, op_pos, op_result,
                            prev_tiles >>

----------------------------------------------------------------------------
(* Dungeon::add_rooms: one iteration of the 'outer loop per step *)

\* the conflict check with a plain `continue`, which only leaves the inner loop
RoomRejectedInnerContinue(room, others) == FALSE

\* the inner loop over self.rooms: continue 'outer on the first conflict
RoomRejected(room, others) ==
    \E i \in 1 .. Len(others) : distance_to(room, others[i]) <= 0

AddRoomsIter ==
    /\ pc = "add_rooms"
    /\ tries < n_room_tries
    /\ \E sr \in GenRangeInclusive(1, 3 + ROOM_EXTRA_SIZE) :
       LET size == sr * 2 + 1 IN
       \E rr \in GenRangeInclusive(0, 1 + TruncDiv(size, 2)) :
       \E widen \in BOOLEAN :
       LET rectangularity == rr * 2
           w  == IF widen THEN size + rectangularity ELSE size
           h  == IF widen THEN size ELSE size + rectangularity
           xs == GenRange(0, TruncDiv(width - w, 2))
           ys == GenRange(0, TruncDiv(height - h, 2))
       IN  IF xs = {} \/ ys = {}
           THEN Panic(PanicEmptyRange)
           ELSE \E xr \in xs, yr \in ys :
                LET room == Rect(xr * 2 + 1, yr * 2 + 1, w, h) IN
                /\ tries' = tries + 1
                /\ IF RoomRejected(room, rooms)
                   THEN UNCHANGED << rooms, curr_region, tiles, regions >>
                   ELSE /\ rooms' = Append(rooms, room)
                        /\ curr_region' = curr_region + 1
                        /\ tiles' = CarveTiles(tiles, width, RoomCells(room), "Floor")
                        /\ regions' = CarveRegions(regions, RoomCells(room),
                                                   curr_region + 1)
                /\ UNCHANGED << width, height, n_room_tries, pc, seed, cells,
                                last_dir, seen_unmade, seen_dir, connector_regions, connectors,
                                merged_regions, open_regions, done, cursor,
                                junctions, shrunk, start_tiles, op, op_pos,
                                op_result, prev_tiles >>

AddRoomsReturn ==
    /\ pc = "add_rooms"
    /\ tries = n_room_tries
    /\ pc' = "mazes"
    /\ seed' = 1
    /\ UNCHANGED << width, height, tiles, n_room_tries, rooms, regions, curr_region,
                    tries, cells, last_dir, seen_unmade, seen_dir, connector_regions, connectors,
                    merged_regions, open_regions, done, cursor, junctions, shrunk,
                    start_tiles, op, op_pos, op_result, prev_tiles >>

----------------------------------------------------------------------------
(* The maze loop of generate, and Dungeon::grow_maze *)

\* can_carve without its bounds check
can_carve_unbounded(t, w, h, pos, direction) ==
    get_tile(t, w, VecAdd(pos, VecMul(direction, 2))) = "Wall"


can_carve(t, w, h, pos, direction) ==
    /\ StageContains(w, h, VecAdd(pos, VecMul(direction, 3)))
    /\ get_tile(t, w, VecAdd(pos, VecMul(direction, 2))) = "Wall"

\* unmade_cells: the carvable directions, in CARDINALS order
UnmadeCells(t, w, h, cell) ==
    SelectSeq(CARDINALS, LAMBDA dir : can_carve(t, w, h, cell, dir))

SeqContains(s, e) == \E i \in 1 .. Len(s) : s[i] = e

\* the draws of gen_range(1..=100) the model distinguishes
WindingRolls == {1, 50, 100}

\* the winding roll compared the other way round
KeepsDirectionFlipped(unmade, ld, roll) ==
    SeqContains(unmade, ld) /\ roll <= WINDING_PERCENT

\* unmade_cells.contains(&last_dir) && roll > WINDING_PERCENT
KeepsDirection(unmade, ld, roll) ==
    SeqContains(unmade, ld) /\ roll > WINDING_PERCENT

\* grow_maze up to its loop: start_region, carve(start), cells.push(start)
GrowMazeBegin(start) ==
    /\ curr_region' = curr_region + 1
    /\ tiles' = CarveTiles(tiles, width, {start}, "Floor")
    /\ regions' = CarveRegions(regions, {start}, curr_region + 1)
    /\ cells' = << start >>
    /\ last_dir' = NoDir
    /\ seen_unmade' = << >>
    /\ seen_dir' = NoDir
    /\ pc' = "grow_maze"

\* first index >= from of a seed position that is still Wall, or 0
NextSeed(t, w, h, from) ==
    LET sc == SeedCells(w, h)
        cand == {k \in from .. Len(sc) : get_tile(t, w, sc[k]) = "Wall"}
    IN  IF cand = {} THEN 0 ELSE CHOOSE k \in cand : \A j \in cand : k <= j

\* the for y / for x loop of generate up to the next call of grow_maze,
\* or to its end
MazeLoop ==
    /\ pc = "mazes"
    /\ LET k == NextSeed(tiles, width, height, seed) IN
       IF k = 0
       THEN /\ pc' = "connect_regions"
            /\ UNCHANGED << tiles, regions, curr_region, cells, last_dir, seen_unmade, seen_dir, seed >>
       ELSE /\ GrowMazeBegin(SeedCells(width, height)[k])
            /\ seed' = k + 1
    /\ UNCHANGED << width, height, n_room_tries, rooms, tries, connector_regions,
                    connectors, merged_regions, open_regions, done, cursor,
                    junctions, shrunk, start_tiles, op, op_pos, op_result,
                    prev_tiles >>

\* one iteration of the while let loop of grow_maze; when the stack empties
\* grow_maze returns to `back`
GrowStep(back) ==
    /\ pc = "grow_maze"
    /\ cells # << >>
    /\ LET cell == cells[Len(cells)]
           unmade == UnmadeCells(tiles, width, height, cell)
       IN  /\ seen_unmade' = unmade
           /\ seen_dir' = last_dir
           /\ IF unmade = << >>
              THEN /\ cells' = SubSeq(cells, 1, Len(cells) - 1)
                   /\ last_dir' = NoDir
                   /\ pc' = IF Len(cells) = 1 THEN back ELSE pc
                   /\ UNCHANGED << tiles, regions >>
              ELSE \E roll \in WindingRolls, k \in 1 .. Len(unmade) :
                   LET dir == IF KeepsDirection(unmade, last_dir, roll)
                              THEN last_dir
                              ELSE unmade[k]
                       carved == {VecAdd(cell, dir), VecAdd(cell, VecMul(dir, 2))}
                   IN  /\ tiles' = CarveTiles(tiles, width, carved, "Floor")
                       /\ regions' = CarveRegions(regions, carved, curr_region)
                       /\ cells' = Append(cells, VecAdd(cell, VecMul(dir, 2)))
                       /\ last_dir' = dir
                       /\ pc' = pc
    /\ UNCHANGED << width, height, n_room_tries, rooms, curr_region, tries, seed,
                    connector_regions, connectors, merged_regions, open_regions,
                    done, cursor, junctions, shrunk, start_tiles, op, op_pos,
                    op_result, prev_tiles >>

GrowMazeStep == GrowStep("mazes")

----------------------------------------------------------------------------
(* Dungeon::connect_regions and Dungeon::add_junction *)

RECURSIVE TouchedRegions(_, _, _)
\* the distinct region ids around pos among the first k CARDINALS, in order
TouchedRegions(rg, pos, k) ==
    IF k = 0 THEN << >>
    ELSE LET prev == TouchedRegions(rg, pos, k - 1)
             p == VecAdd(pos, CARDINALS[k])
         IN  IF p \in DOMAIN rg /\ ~SeqContains(prev, rg[p])
             THEN Append(prev, rg[p])
             ELSE prev

\* connector_regions: every interior Wall cell touching two regions or more
FindConnectors(t, w, h, rg) ==
    LET sel == SelectSeq(InteriorCells(w, h),
                   LAMBDA p : /\ get_tile(t, w, p) = "Wall"
                              /\ Len(TouchedRegions(rg, p, Len(CARDINALS))) >= 2)
    IN  [k \in 1 .. Len(sel) |->
            << sel[k], TouchedRegions(rg, sel[k], Len(CARDINALS)) >>]

\* connector_regions.iter().find(|(p, _)| *p == pos).unwrap().1
RegionsOf(cr, pos) ==
    LET k == CHOOSE i \in 1 .. Len(cr) :
                 cr[i][1] = pos /\ \A j \in 1 .. (i - 1) : cr[j][1] # pos
    IN  cr[k][2]

\* .map(|&region| merged_regions[&region])
Resolve(regs, merged) == [i \in 1 .. Len(regs) |-> merged[regs[i]]]

SeqRange(s) == {s[i] : i \in 1 .. Len(s)}

\* the sources without skip(1): the destination is merged away too
MergeSourcesNoSkip(regs) == regs

\* regions.iter().skip(1)
MergeSources(regs) == Tail(regs)

\* the tiles add_junction can write
JunctionTiles ==
    {IF opened THEN (IF door THEN "OpenDoor" ELSE "Floor") ELSE "ClosedDoor" :
        opened \in GenRatio(1, JUNCTION_OPEN_CHANCE),
        door \in GenRatio(1, OPEN_DOOR_CHANCE)}

\* (connector - pos).abs() < 2
TooClose(connector, pos) == VecAbs(VecSub(connector, pos)) < 2

\* the retain test with its polarity reversed
StillSpansReversed(cr, merged, pos) ==
    Cardinality(SeqRange(Resolve(RegionsOf(cr, pos), merged))) <= 1

\* the connector still spans different regions
StillSpans(cr, merged, pos) ==
    Cardinality(SeqRange(Resolve(RegionsOf(cr, pos), merged))) > 1

\* while open_regions.len() > 1
MergeLoopGuard(open) == Cardinality(open) > 1

ConnectBegin ==
    /\ pc = "connect_regions"
    /\ connector_regions' = FindConnectors(tiles, width, height, regions)
    /\ connectors' = [k \in 1 .. Len(connector_regions') |-> connector_regions'[k][1]]
    /\ merged_regions' = [i \in 0 .. curr_region |-> i]
    /\ open_regions' = 0 .. curr_region
    /\ pc' = "merge_loop"
    /\ UNCHANGED << width, height, tiles, n_room_tries, rooms, regions, curr_region,
                    tries, seed, cells, last_dir, seen_unmade, seen_dir, done, cursor, junctions, shrunk,
                    start_tiles, op, op_pos, op_result, prev_tiles >>

\* one iteration of the merge loop, its connectors.retain included
ConnectIter ==
    /\ pc = "merge_loop"
    /\ MergeLoopGuard(open_regions)
    /\ IF connectors = << >>
       THEN Panic(PanicRemZero)
       ELSE \E k \in 1 .. Len(connectors), tile \in JunctionTiles :
            LET connector == connectors[k]
                regs == Resolve(RegionsOf(connector_regions, connector), merged_regions)
                dest == regs[1]
                sources == SeqRange(MergeSources(regs))
                merged == [i \in DOMAIN merged_regions |->
                              IF merged_regions[i] \in sources
                              THEN dest ELSE merged_regions[i]]
                kept == SelectSeq(connectors,
                            LAMBDA pos : /\ ~TooClose(connector, pos)
                                         /\ StillSpans(connector_regions, merged, pos))
                collapsed == {pos \in SeqRange(connectors) :
                                 /\ ~TooClose(connector, pos)
                                 /\ ~StillSpans(connector_regions, merged, pos)}
            IN  \E extra \in SUBSET collapsed :
                \E extra_tile \in [extra -> JunctionTiles] :
                /\ (extra # {} => TRUE \in GenRatio(1, EXTRA_CONNECTOR_CHANCE))
                /\ (extra # collapsed => FALSE \in GenRatio(1, EXTRA_CONNECTOR_CHANCE))
                /\ tiles' = [i \in DOMAIN tiles |->
                                IF i = StageIndex(width, connector) THEN tile
                                ELSE IF \E p \in extra : StageIndex(width, p) = i
                                THEN extra_tile[CHOOSE p \in extra :
                                                    StageIndex(width, p) = i]
                                ELSE tiles[i]]
                /\ merged_regions' = merged
                /\ open_regions' = open_regions \ sources
                /\ connectors' = kept
                /\ junctions' = junctions \cup {connector} \cup extra
                /\ shrunk' = (Cardinality(open_regions') < Cardinality(open_regions))
                /\ UNCHANGED << width, height, n_room_tries, rooms, regions,
                                curr_region, pc, tries, seed, cells, last_dir, seen_unmade, seen_dir,
                                connector_regions, done, cursor, start_tiles, op,
                                op_pos, op_result, prev_tiles >>

ConnectReturn ==
    /\ pc = "merge_loop"
    /\ ~MergeLoopGuard(open_regions)
    /\ pc' = "connected"
    /\ UNCHANGED << width, height, tiles, n_room_tries, rooms, regions, curr_region,
                    tries, seed, cells, last_dir, seen_unmade, seen_dir, connector_regions, connectors,
                    merged_regions, open_regions, done, cursor, junctions, shrunk,
                    start_tiles, op, op_pos, op_result, prev_tiles >>

----------------------------------------------------------------------------
(* Dungeon::remove_dead_ends *)

\* exits counted over the first three CARDINALS only
ExitsThreeWays(t, w, pos) ==
    Cardinality({i \in 1 .. (Len(CARDINALS) - 1) :
                    get_tile(t, w, VecAdd(pos, CARDINALS[i])) # "Wall"})

\* exits: the non-Wall cells among the four neighbours
Exits(t, w, pos) ==
    Cardinality({i \in 1 .. Len(CARDINALS) :
                    get_tile(t, w, VecAdd(pos, CARDINALS[i])) # "Wall"})

\* the cell is converted: it is not Wall and exits == 1
IsDeadEnd(t, w, pos) == get_tile(t, w, pos) # "Wall" /\ Exits(t, w, pos) = 1

\* first index >= from of an interior cell the scan converts, or 0
NextDeadEnd(t, w, h, from) ==
    LET ic == InteriorCells(w, h)
        cand == {k \in from .. Len(ic) : IsDeadEnd(t, w, ic[k])}
    IN  IF cand = {} THEN 0 ELSE CHOOSE k \in cand : \A j \in cand : k <= j

\* a single pass, whatever it changed
AnotherPassNever(d) == FALSE

\* while !done: another pass follows a pass that changed something
AnotherPass(d) == ~d

\* entry of remove_dead_ends up to the first scan: done = false; done = true
PruneBegin ==
    /\ pc = "connected"
    /\ pc' = "remove_dead_ends"
    /\ done' = TRUE
    /\ cursor' = 1
    /\ start_tiles' = tiles
    /\ UNCHANGED << width, height, tiles, n_room_tries, rooms, regions, curr_region,
                    tries, seed, cells, last_dir, seen_unmade, seen_dir, connector_regions, connectors,
                    merged_regions, open_regions, junctions, shrunk, op, op_pos,
                    op_result, prev_tiles >>

\* the scan from the cursor to the next conversion, or to the end of the
\* pass and then into the next pass or out of the function
PruneStep ==
    /\ pc = "remove_dead_ends"
    /\ LET k == NextDeadEnd(tiles, width, height, cursor) IN
       IF k # 0
       THEN /\ tiles' = set_tile(tiles, width, InteriorCells(width, height)[k], "Wall")
            /\ done' = FALSE
            /\ cursor' = k + 1
            /\ pc' = pc
       ELSE /\ tiles' = tiles
            /\ done' = TRUE
            /\ cursor' = 1
            /\ pc' = IF AnotherPass(done) THEN pc ELSE "done"
    /\ UNCHANGED << width, height, n_room_tries, rooms, regions, curr_region, tries,
                    seed, cells, last_dir, seen_unmade, seen_dir, connector_regions, connectors,
                    merged_regions, open_regions, junctions, shrunk, start_tiles,
                    op, op_pos, op_result, prev_tiles >>

----------------------------------------------------------------------------
(* Dungeon::generate on a fresh Stage *)

Next ==
    \/ Generate
    \/ AddRoomsIter
    \/ AddRoomsReturn
    \/ MazeLoop
    \/ GrowMazeStep
    \/ ConnectBegin
    \/ ConnectIter
    \/ ConnectReturn
    \/ PruneBegin
    \/ PruneStep

Spec == Init /\ [][Next]_vars

----------------------------------------------------------------------------
(* Dungeon::grow_maze alone, from seed (1,1) on an all-Wall stage *)

\* the stages are 2a+1 wide and 2b+1 high, a and b in 1 .. MaxMazeHalf
MaxMazeHalf == 4

MazeDims == {<<2 * a + 1, 2 * b + 1>> : a \in 1 .. MaxMazeHalf, b \in 1 .. MaxMazeHalf}

MazeInit ==
    /\ \E d \in MazeDims : width = d[1] /\ height = d[2]
    /\ tiles = StageNew(width, height)
    /\ DungeonNew
    /\ pc = "maze_alone"
    /\ IdleLocals
    /\ start_tiles = tiles
    /\ prev_tiles = tiles

GrowMazeAlone ==
    /\ pc = "maze_alone"
    /\ GrowMazeBegin(<<1, 1>>)
    /\ UNCHANGED << width, height, n_room_tries, rooms, tries, seed,
                    connector_regions, connectors, merged_regions, open_regions,
                    done, cursor, junctions, shrunk, start_tiles, op, op_pos,
                    op_result, prev_tiles >>

GrowMazeAloneStep == GrowStep("maze_done")

MazeNext == GrowMazeAlone \/ GrowMazeAloneStep

SpecMaze == MazeInit /\ [][MazeNext]_vars

----------------------------------------------------------------------------
(* Dungeon::remove_dead_ends alone, on any starting grid *)

\* the starting grids have at most MaxInterior interior cells
MaxInterior == 11

\* widths and heights tried
PruneSides == 3 .. 8

PruneDims ==
    {d \in PruneSides \X PruneSides : (d[1] - 2) * (d[2] - 2) <= MaxInterior}

\* a border cell that may be open in a starting grid (above interior cell (1,1))
BorderOpening == <<1, 0>>

PruneInit ==
    /\ \E d \in PruneDims : width = d[1] /\ height = d[2]
    /\ \E open \in SUBSET SeqRange(InteriorCells(width, height)),
          border \in SUBSET {BorderOpening} :
          tiles = [i \in 0 .. (width * height - 1) |->
                      IF \E p \in open : StageIndex(width, p) = i THEN "Floor"
                      ELSE IF \E p \in border : StageIndex(width, p) = i
                      THEN "ClosedDoor"
                      ELSE "Wall"]
    /\ DungeonNew
    /\ pc = "connected"
    /\ IdleLocals
    /\ start_tiles = tiles
    /\ prev_tiles = tiles

PruneNext == PruneBegin \/ PruneStep

SpecPrune == PruneInit /\ [][PruneNext]_vars

----------------------------------------------------------------------------
(* Stage::get and Stage::set, at positions in and around the grid *)

StageOpDims == { <<3, 2>>, <<2, 3>> }

\* how far outside the grid the positions tried reach
StageReach == 1

StageInit ==
    /\ \E d \in StageOpDims : width = d[1] /\ height = d[2]
    /\ tiles = StageNew(width, height)
    /\ DungeonNew
    /\ pc = "stage"
    /\ IdleLocals
    /\ start_tiles = tiles
    /\ prev_tiles = tiles

StagePositions ==
    {<<x, y>> : x \in (-StageReach) .. (width - 1 + StageReach),
                y \in (-StageReach) .. (height - 1 + StageReach)}

StageGetOp ==
    /\ pc = "stage"
    /\ \E pos \in StagePositions :
          /\ op' = "get"
          /\ op_pos' = pos
          /\ op_result' = StageGet(tiles, width, pos)
    /\ prev_tiles' = tiles
    /\ UNCHANGED << width, height, tiles, n_room_tries, rooms, regions, curr_region,
                    pc, tries, seed, cells, last_dir, seen_unmade, seen_dir,
                    connector_regions, connectors, merged_regions, open_regions,
                    done, cursor, junctions, shrunk, start_tiles >>

StageSetOp ==
    /\ pc = "stage"
    /\ \E pos \in StagePositions, tile \in {"Wall", "Floor"} :
          /\ op' = "set"
          /\ op_pos' = pos
          /\ tiles' = StageSet(tiles, width, pos, tile)
    /\ op_result' = None
    /\ prev_tiles' = tiles
    /\ UNCHANGED << width, height, n_room_tries, rooms, regions, curr_region,
                    pc, tries, seed, cells, last_dir, seen_unmade, seen_dir,
                    connector_regions, connectors, merged_regions, open_regions,
                    done, cursor, junctions, shrunk, start_tiles >>

StageNext == StageGetOp \/ StageSetOp

SpecStage == StageInit /\ [][StageNext]_vars

----------------------------------------------------------------------------
(* The grid as the properties see it: by (x, y), not by vector index *)

GridCells(w, h) == {<<x, y>> : x \in 0 .. (w - 1), y \in 0 .. (h - 1)}

TileAt(t, w, p) == t[p[2] * w + p[1]]

OpenCells(t, w, h) == {p \in GridCells(w, h) : TileAt(t, w, p) # "Wall"}

BorderCells(w, h) ==
    {p \in GridCells(w, h) : p[1] \in {0, w - 1} \/ p[2] \in {0, h - 1}}

Adjacent(a, b) == Abs(a[1] - b[1]) + Abs(a[2] - b[2]) = 1

RECURSIVE Flood(_, _)
\* the cells of P reachable from R by cardinal steps inside P
Flood(P, R) ==
    LET N == R \cup {q \in P : \E r \in R : Adjacent(q, r)}
    IN  IF N = R THEN R ELSE Flood(P, N)

SingleComponent(P) == P = {} \/ Flood(P, {CHOOSE p \in P : TRUE}) = P

OpenNeighbours(t, w, h, p) ==
    {q \in OpenCells(t, w, h) : Adjacent(p, q)}

----------------------------------------------------------------------------
(* Properties *)

\* C1: when connect_regions returns, the non-Wall cells (Floor, OpenDoor,
\* ClosedDoor) form a single component under cardinal adjacency.
C1_ConnectedAfterConnectRegions ==
    pc = "connected" => SingleComponent(OpenCells(tiles, width, height))

\* three regions (a room between two mazes) were merged
C1_Witness ==
    /\ pc = "connected"
    /\ curr_region >= 2
    /\ Cardinality(junctions) >= 2

\* C2: any two distinct accepted rooms have separation metric > 0, and
\* neither share a cell nor have cardinally adjacent cells.
C2_RoomsApart ==
    \A i, j \in 1 .. Len(rooms) :
        i # j =>
            /\ distance_to(rooms[i], rooms[j]) > 0
            /\ \A a \in RoomCells(rooms[i]), b \in RoomCells(rooms[j]) :
                  a # b /\ ~Adjacent(a, b)

\* two rooms accepted, and later attempts rejected, by the end of add_rooms
C2_Witness ==
    /\ pc = "mazes"
    /\ Len(rooms) >= 2
    /\ tries = n_room_tries

\* C3: when remove_dead_ends returns, no interior non-Wall cell has exactly
\* one non-Wall cardinal neighbour, and another scan finds nothing to convert.
C3_NoDeadEndLeft ==
    pc = "done" =>
        /\ \A p \in OpenCells(tiles, width, height) \ BorderCells(width, height) :
              Cardinality(OpenNeighbours(tiles, width, height, p)) # 1
        /\ NextDeadEnd(tiles, width, height, 1) = 0

\* pruning took cells away over more than one pass and left some standing
C3_Witness ==
    /\ pc = "done"
    /\ Cardinality(OpenCells(start_tiles, width, height)
                       \ OpenCells(tiles, width, height)) >= 3
    /\ OpenCells(tiles, width, height) \ BorderCells(width, height) # {}

\* C4: at a position outside the grid, get answers None and set changes no
\* cell.
C4_OutOfBoundsIsNoOp ==
    ~StageContains(width, height, op_pos) =>
        /\ op = "get" => op_result = None
        /\ op = "set" => tiles = prev_tiles

\* C5: on the 1x1 grid generate does not panic.
C5_MinimalGridCompletes ==
    (width = 1 /\ height = 1) => pc \notin PanicStates

\* C6: while and after grow_maze runs from seed (1,1) on an all-Wall grid,
\* (1,1) is Floor and every border cell is Wall.
C6_BorderStaysWall ==
    pc \in {"grow_maze", "maze_done"} =>
        /\ TileAt(tiles, width, <<1, 1>>) = "Floor"
        /\ \A p \in BorderCells(width, height) : TileAt(tiles, width, p) = "Wall"

\* grow_maze returned on the 5x5 grid with corridors carved to the far corner
C6_Witness ==
    /\ pc = "maze_done"
    /\ width = 5
    /\ height = 5
    /\ TileAt(tiles, width, <<3, 3>>) = "Floor"

\* C7: when connect_regions returns, no two junctions it carved are at
\* Manhattan distance 1.
C7_NoAdjacentJunctions ==
    pc = "connected" => \A a, b \in junctions : ~Adjacent(a, b)

\* C8 as stated: when the previous direction is carvable and another one is
\* too, the carver turns.
C8_TurnsWhenPossible ==
    (pc = "grow_maze" /\ SeqContains(seen_unmade, seen_dir) /\ Len(seen_unmade) >= 2)
        => last_dir # seen_dir

\* C8 amended: with WINDING_PERCENT = 0, whenever the previous direction is
\* carvable the carver keeps it, whatever else is carvable; it turns only when
\* the previous direction is not carvable, and then to a carvable direction.
C8_KeepsStraight ==
    (pc = "grow_maze" /\ seen_unmade # << >>) =>
        /\ SeqContains(seen_unmade, last_dir)
        /\ SeqContains(seen_unmade, seen_dir) => last_dir = seen_dir

\* the carver kept its direction although it could have turned
C8_Witness ==
    /\ pc = "grow_maze"
    /\ SeqContains(seen_unmade, seen_dir)
    /\ Len(seen_unmade) >= 2
    /\ last_dir = seen_dir

\* C9: in the merge loop the candidate list is never empty while more than
\* one region is open, every iteration removes an open region, and at exit
\* exactly one open region remains.
C9_MergeLoopProgress ==
    /\ pc # PanicRemZero
    /\ (pc = "merge_loop" /\ Cardinality(open_regions) > 1) => connectors # << >>
    /\ shrunk
    /\ pc = "connected" => Cardinality(open_regions) = 1

\* the loop ran twice, from three regions down to one
C9_Witness ==
    /\ pc = "connected"
    /\ curr_region >= 2
    /\ Cardinality(open_regions) = 1
    /\ connectors = << >>

\* C10: if the non-Wall cells are one component when remove_dead_ends starts,
\* they are one component after every conversion and at return; cells are
\* only taken away, and never all of them.
C10_PruneKeepsConnected ==
    (pc \in {"remove_dead_ends", "done"}
         /\ SingleComponent(OpenCells(start_tiles, width, height))) =>
        /\ SingleComponent(OpenCells(tiles, width, height))
        /\ OpenCells(tiles, width, height) \subseteq OpenCells(start_tiles, width, height)
        /\ OpenCells(start_tiles, width, height) # {}
              => OpenCells(tiles, width, height) # {}

\* a connected grid lost a dead-end corridor and kept a loop
C10_Witness ==
    /\ pc = "done"
    /\ SingleComponent(OpenCells(start_tiles, width, height))
    /\ OpenCells(tiles, width, height) # OpenCells(start_tiles, width, height)
    /\ Cardinality(OpenCells(tiles, width, height)) >= 4

====
